---- MODULE Spec2Model ----
(***************************************************************************)
(* Model of pgoutput-py: the pgoutput message decoders (consumer.py) and   *)
(* the FiniteConsumer countdown loop driven by cursor.consume_stream.      *)
(*                                                                         *)
(* Bytes objects are sequences of naturals in 0..255.  A str is the        *)
(* sequence of its code points.  The outcome of a call is a record whose   *)
(* field exc names the exception raised ("none" when the call returns).    *)
(***************************************************************************)
EXTENDS Integers, Sequences, FiniteSets, TLC

(***************************************************************************)
(* Bounds of the model.                                                    *)
(***************************************************************************)
MaxMsgs == 3        \* messages the transport delivers in one run
MaxN == 2           \* largest initial target n
MaxCols == 2        \* column encodings concatenated in one tuple input
MaxName == 3        \* bytes that follow the length byte of a Relation input

(***************************************************************************)
(* Character codes of the tags and markers used by the source.             *)
(***************************************************************************)
TagB == 66
TagC == 67
TagD == 68
TagI == 73
TagR == 82
TagU == 85
MarkK == 75
MarkN == 78
MarkO == 79
ColN == 110
ColT == 116
ColU == 117

(***************************************************************************)
(* Python bytes slicing: bs[:k] and bs[k:] (k >= 0).                       *)
(***************************************************************************)
Min(a, b) == IF a < b THEN a ELSE b

Take(bs, k) == SubSeq(bs, 1, Min(k, Len(bs)))

Drop(bs, k) == SubSeq(bs, Min(k, Len(bs)) + 1, Len(bs))

(***************************************************************************)
(* bytes.decode("utf-8"), strict.  Returns the code points, or the         *)
(* UnicodeDecodeError raised on the first ill-formed sequence.             *)
(***************************************************************************)
IsCont(b) == b >= 128 /\ b <= 191

Utf8SeqLen(bs, i) ==
    LET b == bs[i]
        has(k) == i + k <= Len(bs)
        c(k) == bs[i + k]
    IN  IF b < 128 THEN 1
        ELSE IF b >= 194 /\ b <= 223
            THEN IF has(1) /\ IsCont(c(1)) THEN 2 ELSE 0
        ELSE IF b >= 224 /\ b <= 239
            THEN IF has(2) /\ IsCont(c(1)) /\ IsCont(c(2))
                    /\ (b = 224 => c(1) >= 160)
                    /\ (b = 237 => c(1) <= 159)
                 THEN 3 ELSE 0
        ELSE IF b >= 240 /\ b <= 244
            THEN IF has(3) /\ IsCont(c(1)) /\ IsCont(c(2)) /\ IsCont(c(3))
                    /\ (b = 240 => c(1) >= 144)
                    /\ (b = 244 => c(1) <= 143)
                 THEN 4 ELSE 0
        ELSE 0

Utf8CodePoint(bs, i, k) ==
    IF k = 1 THEN bs[i]
    ELSE IF k = 2 THEN (bs[i] - 192) * 64 + (bs[i + 1] - 128)
    ELSE IF k = 3 THEN (bs[i] - 224) * 4096 + (bs[i + 1] - 128) * 64
                       + (bs[i + 2] - 128)
    ELSE (bs[i] - 240) * 262144 + (bs[i + 1] - 128) * 4096
         + (bs[i + 2] - 128) * 64 + (bs[i + 3] - 128)

RECURSIVE Utf8From(_, _, _)
Utf8From(bs, i, acc) ==
    IF i > Len(bs) THEN [exc |-> "none", str |-> acc]
    ELSE LET k == Utf8SeqLen(bs, i)
         IN  IF k = 0 THEN [exc |-> "UnicodeDecodeError"]
             ELSE Utf8From(bs, i + k, Append(acc, Utf8CodePoint(bs, i, k)))

Utf8Decode(bs) == Utf8From(bs, 1, <<>>)

(***************************************************************************)
(* struct.unpack with big-endian formats.  A buffer whose length differs   *)
(* from the size of the format raises struct.error.                        *)
(***************************************************************************)
Signed8(b) == IF b >= 128 THEN b - 256 ELSE b

Int16BE(bs) == Signed8(bs[1]) * 256 + bs[2]

Int32BE(bs) == Signed8(bs[1]) * 16777216 + bs[2] * 65536 + bs[3] * 256 + bs[4]

\* A 64-bit integer v is kept as the pair hi = v \div 2^32 (signed) and
\* lo = (v % 2^32) - 2^31, so that both halves fit a 32-bit integer and the
\* order of two values is the lexicographic order of their pairs.
Int64BE(bs) ==
    [hi |-> Int32BE(SubSeq(bs, 1, 4)),
     lo |-> (bs[5] - 128) * 16777216 + bs[6] * 65536 + bs[7] * 256 + bs[8]]

Leq64(a, b) == a.hi < b.hi \/ (a.hi = b.hi /\ a.lo <= b.lo)

StructError == [exc |-> "struct.error"]

Unpack_h(bs) ==
    IF Len(bs) # 2 THEN StructError ELSE [exc |-> "none", val |-> Int16BE(bs)]

Unpack_i(bs) ==
    IF Len(bs) # 4 THEN StructError ELSE [exc |-> "none", val |-> Int32BE(bs)]

\* ">c" and ">s": one byte, returned as a bytes object of length 1
Unpack_c(bs) ==
    IF Len(bs) # 1 THEN StructError ELSE [exc |-> "none", val |-> bs]

Unpack_s(bs) ==
    IF Len(bs) # 1 THEN StructError ELSE [exc |-> "none", val |-> bs]

\* f">{k}s": a negative k is not a valid format
Unpack_ks(k, bs) ==
    IF k < 0 \/ Len(bs) # k THEN StructError ELSE [exc |-> "none", val |-> bs]

(***************************************************************************)
(* io.BytesIO.read(k) on the bytes buf with the cursor at pos (0-based):   *)
(* the bytes returned; a negative k reads to the end.                      *)
(***************************************************************************)
BufRead(buf, pos, k) ==
    IF k < 0 THEN Drop(buf, pos) ELSE Take(Drop(buf, pos), k)

(***************************************************************************)
(* Optional values: None is the empty sequence, Some(x) the sequence <<x>>.*)
(***************************************************************************)
None == <<>>

Some(x) == <<x>>

Raise(e) == [exc |-> e]

(***************************************************************************)
(* Exception propagation: Bind(r, K) is "evaluate r; if it raised, the     *)
(* exception leaves the enclosing function, otherwise go on with K(r)".    *)
(***************************************************************************)
Bind(r, K(_)) == IF r.exc # "none" THEN Raise(r.exc) ELSE K(r)

(***************************************************************************)
(* WALMessage.read_tuple_data on the BytesIO (buf, pos).                   *)
(* ReadColumns is the for loop with k iterations left; a column tag that   *)
(* matches no case of the match statement appends nothing.                 *)
(***************************************************************************)
NullColumn == [type |-> "null", length |-> 0, value |-> None]

ToastColumn == [type |-> "toast", length |-> 0, value |-> None]

TextColumn(length, value) == [type |-> "text", length |-> length, value |-> Some(value)]

\* case "t": the length, then that many bytes, decoded; the column and the
\* cursor after it
ReadText(buf, pos) ==
    Bind(Unpack_i(BufRead(buf, pos, 4)), LAMBDA l :
    Bind(Unpack_ks(l.val, BufRead(buf, pos + 4, l.val)), LAMBDA v :
    Bind(Utf8Decode(v.val), LAMBDA s :
        [exc |-> "none", column |-> TextColumn(l.val, s.str),
         pos |-> pos + 4 + l.val])))

\* struct.unpack(">c", buffer.read(1))[0].decode()
ReadColType(buf, pos) ==
    Bind(Unpack_c(BufRead(buf, pos, 1)), LAMBDA c : Utf8Decode(c.val))

RECURSIVE ReadColumns(_, _, _, _)
ReadColumns(buf, pos, k, columns) ==
    IF k <= 0 THEN [exc |-> "none", columns |-> columns, pos |-> pos]
    ELSE Bind(ReadColType(buf, pos), LAMBDA col_type :
            IF col_type.str = <<ColN>>
                THEN ReadColumns(buf, pos + 1, k - 1, Append(columns, NullColumn))
            ELSE IF col_type.str = <<ColU>>
                THEN ReadColumns(buf, pos + 1, k - 1, Append(columns, ToastColumn))
            ELSE IF col_type.str = <<ColT>>
                THEN Bind(ReadText(buf, pos + 1), LAMBDA t :
                        ReadColumns(buf, t.pos, k - 1, Append(columns, t.column)))
            ELSE ReadColumns(buf, pos + 1, k - 1, columns))

read_tuple_data(buf, pos) ==
    Bind(Unpack_h(BufRead(buf, pos, 2)), LAMBDA nr_columns :
    Bind(ReadColumns(buf, pos + 2, nr_columns.val, <<>>), LAMBDA cols :
        [exc |-> "none",
         tuple |-> [nr_columns |-> nr_columns.val, columns |-> cols.columns],
         pos |-> cols.pos]))

(***************************************************************************)
(* WALMessage._process_timestamp: the datetime 2000-01-01T00:00:00Z plus   *)
(* ts microseconds, kept as that offset.  A sum outside datetime.min ..    *)
(* datetime.max (years 1..9999) raises OverflowError.                      *)
(***************************************************************************)
DatetimeMinOffset == [hi |-> -14687489, lo |-> 1167876096]

DatetimeMaxOffset == [hi |-> 58779403, lo |-> 289112063]

process_timestamp(ts) ==
    IF Leq64(DatetimeMinOffset, ts) /\ Leq64(ts, DatetimeMaxOffset)
    THEN [exc |-> "none", val |-> [since2000us |-> ts]]
    ELSE Raise("OverflowError")

(***************************************************************************)
(* The tag check every decoder starts with: payload[:1].decode("utf-8")    *)
(* compared with the expected tag.                                         *)
(***************************************************************************)
CheckTag(payload, tag) ==
    Bind(Utf8Decode(Take(payload, 1)), LAMBDA t :
        IF t.str # <<tag>> THEN Raise("ValueError") ELSE [exc |-> "none"])

\* struct.unpack(">s", buffer.read(1))[0].decode() at cursor pos
ReadIdentifier(buf, pos) ==
    Bind(Unpack_s(BufRead(buf, pos, 1)), LAMBDA u : Utf8Decode(u.val))

\* struct.unpack(">i", buffer.read(4))[0] at the start of the buffer
ReadRelationId(buf) == Unpack_i(BufRead(buf, 0, 4))

\* struct.unpack(">qqi", ...) and struct.unpack(">bqqq", ...)
Unpack_qqi(bs) ==
    IF Len(bs) # 20 THEN StructError
    ELSE [exc |-> "none", lsn |-> Int64BE(SubSeq(bs, 1, 8)),
          commit_ts |-> Int64BE(SubSeq(bs, 9, 16)),
          tx_id |-> Int32BE(SubSeq(bs, 17, 20))]

Unpack_bqqq(bs) ==
    IF Len(bs) # 25 THEN StructError
    ELSE [exc |-> "none", flags |-> Signed8(bs[1]),
          lsn |-> Int64BE(SubSeq(bs, 2, 9)),
          commit_lsn |-> Int64BE(SubSeq(bs, 10, 17)),
          commit_ts |-> Int64BE(SubSeq(bs, 18, 25))]

(***************************************************************************)
(* Begin.__init__                                                          *)
(***************************************************************************)
Begin(payload) ==
    Bind(CheckTag(payload, TagB), LAMBDA chk :
    Bind(Unpack_qqi(Drop(payload, 1)), LAMBDA f :
    Bind(process_timestamp(f.commit_ts), LAMBDA ts :
        [exc |-> "none", kind |-> "Begin", lsn |-> f.lsn,
         commit_ts |-> ts.val, tx_id |-> f.tx_id])))

(***************************************************************************)
(* Commit.__init__                                                         *)
(***************************************************************************)
Commit(payload) ==
    Bind(CheckTag(payload, TagC), LAMBDA chk :
    Bind(Unpack_bqqq(Drop(payload, 1)), LAMBDA f :
    Bind(process_timestamp(f.commit_ts), LAMBDA ts :
        [exc |-> "none", kind |-> "Commit", flags |-> f.flags, lsn |-> f.lsn,
         commit_lsn |-> f.commit_lsn, commit_ts |-> ts.val])))

(***************************************************************************)
(* Relation.__init__: the namespace is the one byte read after the id.     *)
(***************************************************************************)
Relation(payload) ==
    Bind(CheckTag(payload, TagR), LAMBDA chk :
    Bind(ReadRelationId(Drop(payload, 1)), LAMBDA rel :
    Bind(ReadIdentifier(Drop(payload, 1), 4), LAMBDA ns :
        [exc |-> "none", kind |-> "Relation",
         relation_id |-> rel.val, namespace |-> ns.str])))

(***************************************************************************)
(* Update.__init__                                                         *)
(***************************************************************************)
ChangeEvent(kind, relation_id, before, after) ==
    [exc |-> "none", kind |-> kind, relation_id |-> relation_id,
     before |-> before, after |-> after]

\* the branch taken when the identifier is "K" or "O"
UpdateWithOld(buf, relation_id) ==
    Bind(read_tuple_data(buf, 5), LAMBDA before :
    Bind(ReadIdentifier(buf, before.pos), LAMBDA identifier :
        IF identifier.str # <<MarkN>> THEN Raise("ValueError")
        ELSE Bind(read_tuple_data(buf, before.pos + 1), LAMBDA after :
                ChangeEvent("Update", relation_id,
                            Some(before.tuple), Some(after.tuple)))))

UpdateHasOld(identifier) == identifier \in {<<MarkK>>, <<MarkO>>}

Update(payload) ==
    Bind(CheckTag(payload, TagU), LAMBDA chk :
    Bind(ReadRelationId(Drop(payload, 1)), LAMBDA rel :
    Bind(ReadIdentifier(Drop(payload, 1), 4), LAMBDA identifier :
        IF UpdateHasOld(identifier.str)
        THEN UpdateWithOld(Drop(payload, 1), rel.val)
        ELSE Bind(read_tuple_data(Drop(payload, 1), 5), LAMBDA after :
                ChangeEvent("Update", rel.val, None, Some(after.tuple))))))

(***************************************************************************)
(* Insert.__init__                                                         *)
(***************************************************************************)
Insert(payload) ==
    Bind(CheckTag(payload, TagI), LAMBDA chk :
    Bind(ReadRelationId(Drop(payload, 1)), LAMBDA rel :
    Bind(ReadIdentifier(Drop(payload, 1), 4), LAMBDA identifier :
        IF identifier.str # <<MarkN>> THEN Raise("ValueError")
        ELSE Bind(read_tuple_data(Drop(payload, 1), 5), LAMBDA after :
                ChangeEvent("Insert", rel.val, None, Some(after.tuple))))))

(***************************************************************************)
(* Delete.__init__                                                         *)
(***************************************************************************)
Delete(payload) ==
    Bind(CheckTag(payload, TagD), LAMBDA chk :
    Bind(ReadRelationId(Drop(payload, 1)), LAMBDA rel :
    Bind(ReadIdentifier(Drop(payload, 1), 4), LAMBDA identifier :
        IF identifier.str \notin {<<MarkK>>, <<MarkO>>} THEN Raise("ValueError")
        ELSE Bind(read_tuple_data(Drop(payload, 1), 5), LAMBDA before :
                ChangeEvent("Delete", rel.val, Some(before.tuple), None)))))

(***************************************************************************)
(* State.                                                                  *)
(*   n, ack    the fields of the FiniteConsumer                            *)
(*   n0        the target the consumer was created with                    *)
(*   status    where consume_stream is: "running", "stopped" (the consumer *)
(*             raised StopReplication), "failed" (another exception left   *)
(*             the loop); "idle" when no stream is consumed                *)
(*   log       one entry per message handed to the consumer: the message,  *)
(*             the exception process_message raised ("none" if it          *)
(*             returned) and what it printed after decoding                 *)
(*   feedback  the flush_lsn of every send_feedback call, in order         *)
(*   arg, ret  the argument and the outcome of a decoder called directly   *)
(***************************************************************************)
VARIABLES n, ack, n0, status, log, feedback, arg, ret

vars == <<n, ack, n0, status, log, feedback, arg, ret>>

NotCalled == [exc |-> "not called"]

(***************************************************************************)
(* FiniteConsumer.process_message, step by step.                           *)
(***************************************************************************)
MutationTags == {<<TagU>>, <<TagI>>, <<TagD>>}

\* the match statement: the decoder of the case taken
Decode(tag, payload) ==
    IF tag = <<TagB>> THEN Begin(payload)
    ELSE IF tag = <<TagU>> THEN Update(payload)
    ELSE IF tag = <<TagI>> THEN Insert(payload)
    ELSE IF tag = <<TagD>> THEN Delete(payload)
    ELSE IF tag = <<TagC>> THEN Commit(payload)
    ELSE [exc |-> "none", kind |-> "Skipping", tag |-> tag]

\* faulty variant of Countdown: every handled message is counted
CountdownEveryTag(self_n, tag) == self_n - 1

\* self.n -= 1 in the cases "U", "I" and "D", after the message is printed
Countdown(self_n, tag) == IF tag \in MutationTags THEN self_n - 1 ELSE self_n

\* faulty variant of StopCheck: the loop stops when the countdown reaches 0
StopCheckAtZero(self_n) == self_n <= 0

\* if self.n < 0: raise StopReplication()
StopCheck(self_n) == self_n < 0

\* faulty variant of SendFeedback: wal_end is flushed instead of data_start
SendFeedbackWalEnd(self_ack, message) ==
    IF self_ack THEN Some(message.wal_end) ELSE None

\* if self.ack: message.cursor.send_feedback(flush_lsn=message.data_start)
SendFeedback(self_ack, message) ==
    IF self_ack THEN Some(message.data_start) ELSE None

\* faulty variant of AfterDecode: the feedback is sent before the stop check
AfterDecodeAckFirst(self_n, self_ack, message, tag, msg) ==
    [exc |-> IF Countdown(self_n, tag) < 0 THEN "StopReplication" ELSE "none",
     n |-> Countdown(self_n, tag),
     printed |-> Some(msg),
     feedback |-> IF self_ack THEN Some(message.data_start) ELSE None]

\* faulty variant of Propagate: the exception is caught and the message skipped
PropagateSwallowed(self_n, self_ack, message, exc) ==
    [exc |-> "none", n |-> self_n, printed |-> None,
     feedback |-> IF self_ack THEN Some(message.data_start) ELSE None]

\* an exception raised by the tag's decode or by a decoder leaves the method
\* at once: no print, no decrement, no stop check, no feedback
Propagate(self_n, self_ack, message, exc) ==
    [exc |-> exc, n |-> self_n, printed |-> None, feedback |-> None]

\* the statements after msg = ...(message.payload) returned
AfterDecode(self_n, self_ack, message, tag, msg) ==
    IF StopCheck(Countdown(self_n, tag))
    THEN [exc |-> "StopReplication", n |-> Countdown(self_n, tag),
          printed |-> Some(msg), feedback |-> None]
    ELSE [exc |-> "none", n |-> Countdown(self_n, tag),
          printed |-> Some(msg), feedback |-> SendFeedback(self_ack, message)]

Try(r, Fail(_), K(_)) == IF r.exc # "none" THEN Fail(r.exc) ELSE K(r)

process_message(self_n, self_ack, message) ==
    Try(Utf8Decode(Take(message.payload, 1)),
        LAMBDA e : Propagate(self_n, self_ack, message, e),
        LAMBDA tag :
            Try(Decode(tag.str, message.payload),
                LAMBDA e : Propagate(self_n, self_ack, message, e),
                LAMBDA msg : AfterDecode(self_n, self_ack, message, tag.str, msg)))

(***************************************************************************)
(* Payloads the transport delivers.                                        *)
(***************************************************************************)
RECURSIVE Zeros(_)
Zeros(k) == IF k = 0 THEN <<>> ELSE <<0>> \o Zeros(k - 1)

RelId1 == <<0, 0, 0, 1>>

TupleNull == <<0, 1, ColN>>

TupleText == <<0, 1, ColT, 0, 0, 0, 1, 97>>

Payloads ==
    { <<TagB>> \o Zeros(20),                                 \* Begin
      <<TagB>> \o Zeros(19),                                 \* Begin, truncated
      <<TagB>> \o Zeros(8) \o <<127>> \o Zeros(11),          \* Begin, year > 9999
      <<TagC>> \o Zeros(25),                                 \* Commit
      <<TagI>> \o RelId1 \o <<MarkN>> \o TupleText,          \* Insert
      <<TagI>> \o RelId1 \o <<MarkK>> \o TupleText,          \* Insert, bad marker
      <<TagU>> \o RelId1 \o <<MarkN>> \o TupleNull,          \* Update, new only
      <<TagU>> \o RelId1 \o <<MarkK>> \o TupleNull \o <<MarkN>> \o TupleText,
      <<TagU>> \o RelId1 \o <<MarkO>> \o TupleNull \o <<MarkK>> \o TupleText,
      <<TagD>> \o RelId1 \o <<MarkO>> \o TupleText,          \* Delete
      <<TagD>> \o RelId1 \o <<MarkN>> \o TupleText,          \* Delete, bad marker
      <<TagD>> \o RelId1 \o <<MarkK>>,                       \* Delete, truncated
      <<TagR>> \o RelId1 \o <<112>>,                         \* Relation: no case
      <<88>>,                                                \* tag 'X'
      <<255>>,                                               \* tag 0xFF
      <<>> }                                                 \* empty payload

\* the i-th message of the stream; WAL positions grow along the stream
Message(payload, i) ==
    [payload |-> payload, data_start |-> i, wal_end |-> i + 1]

(***************************************************************************)
(* FiniteConsumer.__init__ and cursor.consume_stream(FiniteConsumer(n)).   *)
(***************************************************************************)
Init ==
    /\ n \in (0 - MaxN) .. MaxN
    /\ ack \in BOOLEAN
    /\ n0 = n
    /\ status = "running"
    /\ log = <<>>
    /\ feedback = <<>>
    /\ arg = <<>>
    /\ ret = NotCalled

\* consume_stream hands the next message to the consumer (__call__); any
\* exception ends the loop
Call(message) ==
    /\ status = "running"
    /\ Len(log) < MaxMsgs
    /\ LET r == process_message(n, ack, message)
       IN  /\ n' = r.n
           /\ status' = IF r.exc = "none" THEN "running"
                        ELSE IF r.exc = "StopReplication" THEN "stopped"
                        ELSE "failed"
           /\ log' = Append(log, [message |-> message, exc |-> r.exc,
                                  printed |-> r.printed])
           /\ feedback' = IF r.feedback = None THEN feedback
                          ELSE Append(feedback, r.feedback[1])
    /\ UNCHANGED <<ack, n0, arg, ret>>

Next == \E p \in Payloads : Call(Message(p, Len(log) + 1))

Spec == Init /\ [][Next]_vars

(***************************************************************************)
(* The decoders called directly on bounded sets of byte inputs.            *)
(***************************************************************************)
RECURSIVE Concat(_)
Concat(ss) == IF ss = <<>> THEN <<>> ELSE Head(ss) \o Concat(Tail(ss))

SeqsUpTo(S, k) == UNION { [1..j -> S] : j \in 0..k }

\* encodings of the 16-bit column count: 0, 1, 2, 3, -1 and a truncated one
CountEncodings == { <<0, 0>>, <<0, 1>>, <<0, 2>>, <<0, 3>>, <<255, 255>>, <<0>> }

\* encodings of one column: the three kinds, tags matching no case ('x',
\* 0xFF), a text of length 0, of one and two bytes, with ill-formed UTF-8,
\* with a negative length, and truncated ones
ColumnEncodings ==
    { <<ColN>>, <<ColU>>, <<120>>, <<255>>,
      <<ColT, 0, 0, 0, 0>>, <<ColT, 0, 0, 0, 1, 97>>, <<ColT, 0, 0, 0, 2, 195, 169>>,
      <<ColT, 0, 0, 0, 1, 255>>, <<ColT, 255, 255, 255, 255>>, <<ColT, 0, 0>>,
      <<ColT, 0, 0, 0, 2, 97>> }

TupleInput(count, cols) == count \o Concat(cols)

TupleInputs ==
    { TupleInput(c, cols) : c \in CountEncodings,
                            cols \in SeqsUpTo(ColumnEncodings, MaxCols) }

Idle ==
    /\ n = 0
    /\ ack = FALSE
    /\ n0 = 0
    /\ status = "idle"
    /\ log = <<>>
    /\ feedback = <<>>

InitTuple == Idle /\ arg \in TupleInputs /\ ret = NotCalled

\* read_tuple_data(io.BytesIO(arg))
CallReadTupleData ==
    /\ ret = NotCalled
    /\ ret' = read_tuple_data(arg, 0)
    /\ UNCHANGED <<n, ack, n0, status, log, feedback, arg>>

SpecTuple == InitTuple /\ [][CallReadTupleData]_vars

\* tuple blocks used inside Update payloads
TupleBlocks ==
    { <<0, 0>>, TupleNull, TupleText, <<0, 1, 120>>, <<0, 2, ColN>> }

RelIdEncodings == { RelId1, <<255, 255, 255, 255>> }

MarkerBytes == { MarkK, MarkO, MarkN, 88, 0, 255 }

UpdateInput(rel, marker, rest) == <<TagU>> \o rel \o <<marker>> \o rest

UpdateRests ==
    TupleBlocks \cup
    { t1 \o <<m>> \o t2 : t1 \in TupleBlocks, m \in {MarkN, MarkK, 255},
                          t2 \in TupleBlocks }

UpdateInputs ==
    { UpdateInput(rel, m, rest) : rel \in RelIdEncodings, m \in MarkerBytes,
                                  rest \in UpdateRests }
    \cup { <<TagU>>, <<TagU, 0, 0, 0, 1>>, <<TagI>> \o RelId1 \o <<MarkN>> \o TupleNull }

InitUpdate == Idle /\ arg \in UpdateInputs /\ ret = NotCalled

\* Update(arg)
CallUpdate ==
    /\ ret = NotCalled
    /\ ret' = Update(arg)
    /\ UNCHANGED <<n, ack, n0, status, log, feedback, arg>>

SpecUpdate == InitUpdate /\ [][CallUpdate]_vars

LengthBytes == { 0, 1, 2, 3, 112, 255 }

NameBytes == { 97, 112 }

RelationInput(rel, len, rest) == <<TagR>> \o rel \o <<len>> \o rest

RelationInputs ==
    { RelationInput(rel, l, rest) : rel \in RelIdEncodings, l \in LengthBytes,
                                    rest \in SeqsUpTo(NameBytes, MaxName) }
    \cup { <<TagR>>, <<TagR>> \o RelId1, <<TagB>> \o RelId1 \o <<112>> }

InitRelation == Idle /\ arg \in RelationInputs /\ ret = NotCalled

\* Relation(arg)
CallRelation ==
    /\ ret = NotCalled
    /\ ret' = Relation(arg)
    /\ UNCHANGED <<n, ack, n0, status, log, feedback, arg>>

SpecRelation == InitRelation /\ [][CallRelation]_vars

(***************************************************************************)
(* Vocabulary of the properties.                                           *)
(***************************************************************************)
KnownTags == { <<TagB>>, <<TagI>>, <<TagU>>, <<TagD>>, <<TagC>> }

\* the first payload byte is 'I', 'U' or 'D'
IsMutationTagged(e) == Take(e.message.payload, 1) \in MutationTags

\* the first payload byte exists and is none of 'B', 'I', 'U', 'D', 'C'
IsOtherTagged(e) ==
    /\ Len(e.message.payload) >= 1
    /\ Take(e.message.payload, 1) \notin KnownTags

\* process_message got past the match statement: the message was decoded and
\* printed, or skipped
WasHandled(e) == e.printed # None

WasSkipped(e) == e.printed # None /\ e.printed[1].kind = "Skipping"

\* the exception is neither absent nor the stop signal
IsError(x) == x \notin {"none", "StopReplication"}

MutationTaggedUpTo(i) == Cardinality({ j \in 1..i : IsMutationTagged(log[j]) })

DecodedMutationsUpTo(i) ==
    Cardinality({ j \in 1..i : IsMutationTagged(log[j]) /\ WasHandled(log[j]) })

\* the decoder the dispatcher selects for the payload raises
DecoderFails(payload) ==
    /\ Take(payload, 1) \in KnownTags
    /\ Decode(Take(payload, 1), payload).exc # "none"

ReturnedMessages == SelectSeq(log, LAMBDA e : e.exc = "none")

C3_UnknownTagSkipped ==
    \A i \in 1..Len(log) :
        IsOtherTagged(log[i]) =>
            /\ ~IsError(log[i].exc)
            /\ WasSkipped(log[i])

(***************************************************************************)
(* C4.  When the decoder selected for a 'B'/'I'/'U'/'D'/'C' message        *)
(* raises, process_message raises that exception (not the stop signal),    *)
(* the loop ends, n keeps its value and no send_feedback is issued.        *)
(***************************************************************************)
C4_DecodeFailureAtomic ==
    [][ (Len(log') = Len(log) + 1 /\ DecoderFails(log'[Len(log')].message.payload))
        => /\ log'[Len(log')].exc
                = Decode(Take(log'[Len(log')].message.payload, 1),
                         log'[Len(log')].message.payload).exc
           /\ IsError(log'[Len(log')].exc)
           /\ status' = "failed"
           /\ n' = n
           /\ feedback' = feedback ]_vars

\* a decoder failed after earlier messages were counted and acknowledged
C4_Witness ==
    /\ status = "failed"
    /\ ack
    /\ n < n0
    /\ feedback # <<>>
    /\ DecoderFails(log[Len(log)].message.payload)

(***************************************************************************)
(* C5 as stated.  Whenever read_tuple_data returns a TupleData,            *)
(* len(columns) equals nr_columns.                                         *)
(***************************************************************************)
C5_ColumnCount ==
    ret.exc = "none" => Len(ret.tuple.columns) = ret.tuple.nr_columns

(***************************************************************************)
(* C6 as stated.  If, among the declared columns, well-formed columns are  *)
(* followed by a column whose tag byte is none of 'n', 'u', 't', then      *)
(* read_tuple_data raises.                                                 *)
(***************************************************************************)
WellFormedColumns ==
    { <<ColN>>, <<ColU>>, <<ColT, 0, 0, 0, 0>>, <<ColT, 0, 0, 0, 1, 97>>,
      <<ColT, 0, 0, 0, 2, 195, 169>> }

HasBadTag(col) == col[1] \notin {ColN, ColU, ColT}

C6_BadColumnTagRaises ==
    ret # NotCalled =>
        \A c \in CountEncodings, cols \in SeqsUpTo(ColumnEncodings, MaxCols) :
            ( /\ arg = TupleInput(c, cols)
              /\ Len(c) = 2
              /\ \E j \in 1..Len(cols) :
                    /\ j <= Int16BE(c)
                    /\ HasBadTag(cols[j])
                    /\ \A i \in 1..(j - 1) : cols[i] \in WellFormedColumns )
            => ret.exc # "none"

(***************************************************************************)
(* C7 as stated.  For an Update payload 'U', relation id, marker, rest:    *)
(* with marker 'K' or 'O', before is the tuple decoded from rest, the byte *)
(* after it must be 'N' (else the decode raises) and after is the tuple    *)
(* that follows; with any other marker byte, before is absent and after    *)
(* is the tuple decoded from rest.                                         *)
(***************************************************************************)
C7_UpdateOldTupleOptional ==
    ret # NotCalled =>
        \A rel \in RelIdEncodings, m \in MarkerBytes, rest \in UpdateRests :
            arg = UpdateInput(rel, m, rest) =>
                LET buf == Drop(arg, 1)
                    first == read_tuple_data(buf, 5)
                IN  first.exc = "none" =>
                        IF m \in {MarkK, MarkO}
                        THEN LET second == read_tuple_data(buf, first.pos + 1)
                             IN  /\ (first.pos < Len(buf) /\ buf[first.pos + 1] # MarkN)
                                        => ret.exc # "none"
                                 /\ ( /\ first.pos < Len(buf)
                                      /\ buf[first.pos + 1] = MarkN
                                      /\ second.exc = "none" )
                                        => /\ ret.exc = "none"
                                           /\ ret.before = Some(first.tuple)
                                           /\ ret.after = Some(second.tuple)
                        ELSE /\ ret.exc = "none"
                             /\ ret.before = None
                             /\ ret.after = Some(first.tuple)

(***************************************************************************)
(* C8 as stated.  For a Relation payload 'R', relation id, length byte L   *)
(* and at least L further bytes, relation_id is the 32-bit value and       *)
(* namespace is the text of the L bytes after the length byte.             *)
(***************************************************************************)
C8_NamespaceLengthPrefixed ==
    ret # NotCalled =>
        \A rel \in RelIdEncodings, l \in LengthBytes,
           rest \in SeqsUpTo(NameBytes, MaxName) :
            (arg = RelationInput(rel, l, rest) /\ Len(rest) >= l)
            => /\ ret.exc = "none"
               /\ ret.relation_id = Int32BE(rel)
               /\ ret.namespace = SubSeq(rest, 1, l)

(***************************************************************************)
(* C9.  The countdown n equals n0 minus the number of 'I'/'U'/'D'          *)
(* messages decoded so far (Begin, Commit, skipped and failed messages     *)
(* do not count); for n0 >= 0 it never goes below -1 and is -1 exactly     *)
(* when the stop signal has been raised.                                   *)
(***************************************************************************)
C9_CountdownAccounting ==
    /\ n = n0 - DecodedMutationsUpTo(Len(log))
    /\ n0 >= 0 => /\ n >= -1
                  /\ (n = -1) <=> (status = "stopped")

\* mutations were counted although a Begin/Commit/skipped or failed message
\* was handled too
C9_Witness ==
    /\ n0 >= 1
    /\ n < n0
    /\ status = "failed"
    /\ \E i \in 1..Len(log) : WasHandled(log[i]) /\ ~IsMutationTagged(log[i])

(***************************************************************************)
(* C10.  With a negative target the loop handles one message only: if      *)
(* that message is decoded or skipped, whatever its tag, StopReplication   *)
(* is raised on it; no second message is handled and no send_feedback is   *)
(* issued even with ack enabled.                                           *)
(***************************************************************************)
C10_NegativeTargetStopsAtOnce ==
    n0 < 0 =>
        /\ Len(log) <= 1
        /\ feedback = <<>>
        /\ \A i \in 1..Len(log) :
              WasHandled(log[i]) => (log[i].exc = "StopReplication" /\ status = "stopped")
        /\ status = "running" => log = <<>>

\* negative target, ack enabled, the first message is a skipped one
C10_Witness ==
    /\ n0 < 0
    /\ ack
    /\ Len(log) = 1
    /\ WasSkipped(log[1])
    /\ status = "stopped"

====
